---- MODULE Spec2Model ----
(***************************************************************************)
(* rmsync: reconcile a list of wanted PDF files against the documents      *)
(* found in the reMarkable metadata store and upload the missing ones.     *)
(*                                                                         *)
(* The metadata store under BaseDir is a sequence of directory entries in  *)
(* the (lexical) order filepath.Walk visits them; entry i has base name i. *)
(* Names are sequences of one-character strings, file contents sequences   *)
(* of byte values.                                                         *)
(***************************************************************************)
EXTENDS Integers, Sequences, FiniteSets, TLC

\* ---------------------------------------------------------------- bounds
MaxFiles == 2       \* directory entries in a store the queries are run on
MaxDevFiles == 1    \* directory entries in the store Sync runs against
MaxReqs == 2        \* length of the list handed to Sync
MaxCalls == 2       \* Sync calls in one behaviour

\* ------------------------------------------------------- data of the model
NameA == <<"A">>
NameQ == <<"r", "\"">>
Names == {NameA, NameQ}

Urls == {"u1", "u2"}

Bodies == {<<>>, <<37, 80>>}

\* outcome of os.Stat on the sibling .pdf path: "present" (a content file,
\* Stat succeeds), "absent" (ENOENT), "loop" (the path is a symbolic link
\* that cannot be resolved: no content file, Stat fails with ELOOP)
PdfStates == {"present", "absent", "loop"}

NoName == <<>>

Entry(isDir, ext, walkErr, readErr, parseOk, type, name, pdf) ==
    [isDir |-> isDir, ext |-> ext, walkErr |-> walkErr, readErr |-> readErr,
     parseOk |-> parseOk, Type |-> type, VisibleName |-> name, pdf |-> pdf]

Entries ==
    {Entry(FALSE, ".metadata", TRUE, FALSE, TRUE, "", NoName, "absent"),
     Entry(TRUE, ".metadata", FALSE, FALSE, TRUE, "", NoName, "absent"),
     Entry(FALSE, ".content", FALSE, FALSE, TRUE, "", NoName, "absent"),
     Entry(FALSE, ".metadata", FALSE, TRUE, TRUE, "", NoName, "absent"),
     Entry(FALSE, ".metadata", FALSE, FALSE, FALSE, "", NoName, "absent")}
    \cup {Entry(FALSE, ".metadata", FALSE, FALSE, TRUE, t, n, "absent") :
             t \in {"CollectionType", ""}, n \in Names}
    \cup {Entry(FALSE, ".metadata", FALSE, FALSE, TRUE, "DocumentType", n, p) :
             n \in Names, p \in PdfStates}

\* the entries the store Sync runs against is made of: a malformed metadata
\* file, a collection, documents with a content file and one without
DevEntries ==
    {Entry(FALSE, ".metadata", FALSE, FALSE, FALSE, "", NoName, "absent"),
     Entry(FALSE, ".metadata", FALSE, FALSE, TRUE, "CollectionType", NameA, "absent"),
     Entry(FALSE, ".metadata", FALSE, FALSE, TRUE, "DocumentType", NameA, "present"),
     Entry(FALSE, ".metadata", FALSE, FALSE, TRUE, "DocumentType", NameQ, "present"),
     Entry(FALSE, ".metadata", FALSE, FALSE, TRUE, "DocumentType", NameA, "absent")}

SeqsUpTo(S, n) == UNION {[1..k -> S] : k \in 0..n}

\* a path under BaseDir: base name and extension
Path(base, ext) == [base |-> base, ext |-> ext]

\* ------------------------------------------------------------ error values
NoErr == [type |-> "nil", Op |-> ""]
PathError(op) == [type |-> "PathError", Op |-> op]
SyntaxError == [type |-> "SyntaxError", Op |-> ""]
UrlError(op) == [type |-> "url.Error", Op |-> op]
BodyReadError == [type |-> "ErrUnexpectedEOF", Op |-> ""]

\* ------------------------------------------------------ MetadataStore reader
\* filepath.Walk with the callback of getMetadataFilenames, from entry i on
RECURSIVE WalkFrom(_, _, _)
WalkFrom(st, i, filenames) ==
    IF i > Len(st) THEN [filenames |-> filenames, err |-> NoErr]
    ELSE IF st[i].walkErr THEN [filenames |-> <<>>, err |-> PathError("lstat")]
    ELSE IF st[i].isDir \/ st[i].ext # ".metadata"
         THEN WalkFrom(st, i + 1, filenames)
         ELSE WalkFrom(st, i + 1, Append(filenames, Path(i, st[i].ext)))

getMetadataFilenames(st) == WalkFrom(st, 1, <<>>)

\* ioutil.ReadFile followed by json.Unmarshal into a Metadata value
ReadMetadata(st, filename) ==
    LET e == st[filename.base] IN
    IF e.readErr THEN [err |-> PathError("open"), Type |-> "", VisibleName |-> NoName]
    ELSE IF ~e.parseOk THEN [err |-> SyntaxError, Type |-> "", VisibleName |-> NoName]
    ELSE [err |-> NoErr, Type |-> e.Type, VisibleName |-> e.VisibleName]

\* strings.TrimSuffix(filename, filepath.Ext(filename)) + ".pdf"
PdfFilename(filename) == Path(filename.base, ".pdf")

\* os.Stat(pdfFilename): "ok", "ENOENT" or "ELOOP"
Stat(st, path) ==
    LET p == st[path.base].pdf IN
    IF p = "present" THEN "ok" ELSE IF p = "absent" THEN "ENOENT" ELSE "ELOOP"

IsNotExist(staterr) == staterr = "ENOENT"

RemarkableFile(filename, visibleName) ==
    [Filename |-> filename, VisibleName |-> visibleName]

\* "return nil, err" of the two queries: the entries collected so far are dropped
ScanFailedPartial(collected, err) == [files |-> collected, err |-> err]

ScanFailed(collected, err) == [files |-> <<>>, err |-> err]

\* the type test of GetDirectoriesMetadataFiles
IsCollectionLoose(metadata) == metadata.Type # "DocumentType"

IsCollection(metadata) == metadata.Type = "CollectionType"

\* the type test of GetPdfFiles
IsDocument(metadata) == metadata.Type = "DocumentType"

\* the loop of GetDirectoriesMetadataFiles over filenames[i..]
RECURSIVE DirectoriesLoop(_, _, _, _)
DirectoriesLoop(st, filenames, i, directories) ==
    IF i > Len(filenames) THEN [files |-> directories, err |-> NoErr]
    ELSE LET metadata == ReadMetadata(st, filenames[i]) IN
         IF metadata.err # NoErr THEN ScanFailed(directories, metadata.err)
         ELSE IF IsCollection(metadata)
              THEN DirectoriesLoop(st, filenames, i + 1,
                     Append(directories,
                            RemarkableFile(filenames[i], metadata.VisibleName)))
              ELSE DirectoriesLoop(st, filenames, i + 1, directories)

GetDirectoriesMetadataFiles(st) ==
    LET w == getMetadataFilenames(st) IN
    IF w.err # NoErr THEN ScanFailed(<<>>, w.err)
    ELSE DirectoriesLoop(st, w.filenames, 1, <<>>)

\* whether GetPdfFiles appends the record once it has the type DocumentType
PdfIncluded(st, pdfFilename) == ~IsNotExist(Stat(st, pdfFilename))

\* the loop of GetPdfFiles over filenames[i..]
RECURSIVE PdfLoop(_, _, _, _)
PdfLoop(st, filenames, i, pdfFiles) ==
    IF i > Len(filenames) THEN [files |-> pdfFiles, err |-> NoErr]
    ELSE LET metadata == ReadMetadata(st, filenames[i]) IN
         IF metadata.err # NoErr THEN ScanFailed(pdfFiles, metadata.err)
         ELSE IF IsDocument(metadata)
                 /\ PdfIncluded(st, PdfFilename(filenames[i]))
              THEN PdfLoop(st, filenames, i + 1,
                     Append(pdfFiles,
                            RemarkableFile(PdfFilename(filenames[i]),
                                           metadata.VisibleName)))
              ELSE PdfLoop(st, filenames, i + 1, pdfFiles)

GetPdfFiles(st) ==
    LET w == getMetadataFilenames(st) IN
    IF w.err # NoErr THEN ScanFailed(<<>>, w.err)
    ELSE PdfLoop(st, w.filenames, 1, <<>>)

\* the key set of the map createRemarkableFileMap builds
createRemarkableFileMap(files) == {files[i].VisibleName : i \in 1..Len(files)}

\* ------------------------------------------------------------- Device uploader
\* quoteEscaper of mime/multipart, used by Writer.CreateFormFile on the filename
RECURSIVE escapeQuotes(_)
escapeQuotes(s) ==
    IF s = <<>> THEN <<>>
    ELSE IF Head(s) = "\\" THEN <<"\\", "\\">> \o escapeQuotes(Tail(s))
    ELSE IF Head(s) = "\"" THEN <<"\\", "\"">> \o escapeQuotes(Tail(s))
    ELSE <<Head(s)>> \o escapeQuotes(Tail(s))

\* MultipartBody, with the filename written into the header as it is
MultipartBodyUnescaped(fileContents, filename) ==
    [field |-> "file", filename |-> filename, payload |-> fileContents]

\* the one-part multipart body UploadPdfToTablet writes: the form field, the
\* filename parameter of its Content-Disposition header, and the part's payload
MultipartBody(fileContents, filename) ==
    [field |-> "file", filename |-> escapeQuotes(filename), payload |-> fileContents]

\* the request UploadPdfToTablet hands to myClient.Do
UploadRequest(fileContents, filename) ==
    [method |-> "POST", url |-> "http://10.11.99.1/upload",
     body |-> MultipartBody(fileContents, filename)]

NoRequest == [method |-> "", url |-> "", body |-> MultipartBody(<<>>, <<>>)]

\* ------------------------------------------------------------------- requests
\* the FileToSync values the callers of Sync draw their lists from
FileToSync ==
    {[Filename |-> NameA, Url |-> "u1"], [Filename |-> NameA, Url |-> "u2"],
     [Filename |-> NameQ, Url |-> "u1"]}

Stores == SeqsUpTo(Entries, MaxFiles)
DevStores == SeqsUpTo(DevEntries, MaxDevFiles)
ReqLists == SeqsUpTo(FileToSync, MaxReqs)

\* ---------------------------------------------------------------------- state
VARIABLES
    store,         \* the metadata store under BaseDir
    q,             \* result of the last query run directly by a caller
    calls,         \* Sync calls started so far
    pc,            \* where the running Sync call is: idle, scan, loop, fetch, upload
    files,         \* argument of the running (or last) Sync call
    pdfFileMap,    \* Sync's local pdfFileMap
    idx,           \* position of Sync's range loop in files
    fileContents,  \* Sync's local fileContents
    ret,           \* what the last Sync call returned (Pending while it runs)
    trace,         \* the scan, fetch and upload calls of the running (or last) Sync call
    changed,       \* the store was written since the last Sync call returned
    rerun,         \* the running (or last) call repeats the previous list on an unchanged store
    status,        \* status of the last HTTP response the running call received (0: none)
    up             \* a call of UploadPdfToTablet made directly by a caller

vars == <<store, q, calls, pc, files, pdfFileMap, idx, fileContents, ret, trace,
          changed, rerun, status, up>>

syncVars == <<calls, pc, files, pdfFileMap, idx, fileContents, ret, trace,
              changed, rerun, status>>

Pending == [type |-> "pending", Op |-> ""]
NoQuery == [op |-> "none", files |-> <<>>, err |-> NoErr]

\* the libraries' answers to the calls UploadPdfToTablet makes: does
\* CreateFormFile, Writer.Close, http.NewRequest return an error
\* and does myClient.Do
LibAnswers ==
    [createErr : BOOLEAN, closeErr : BOOLEAN, newRequestErr : BOOLEAN, doErr : BOOLEAN]

UploadCall(pcu, contents, filename, lib, sent, req, outcome, err) ==
    [pc |-> pcu, fileContents |-> contents, filename |-> filename, lib |-> lib,
     sent |-> sent, req |-> req, outcome |-> outcome, err |-> err]

NoUpload ==
    UploadCall("none", <<>>, <<>>,
               [createErr |-> FALSE, closeErr |-> FALSE, newRequestErr |-> FALSE,
                doErr |-> FALSE],
               FALSE, NoRequest, "none", NoErr)

Event(ev, i, url, req, body, err) ==
    [ev |-> ev, i |-> i, url |-> url, req |-> req, body |-> body, err |-> err]

ScanBegin == Event("scanBegin", 0, "", NoRequest, <<>>, NoErr)
ScanEnd(err) == Event("scanEnd", 0, "", NoRequest, <<>>, err)
FetchBeginEv(i, url) == Event("fetchBegin", i, url, NoRequest, <<>>, NoErr)
FetchEnd(i, body, err) == Event("fetchEnd", i, "", NoRequest, body, err)
UploadBegin(i, req) == Event("uploadBegin", i, "", req, <<>>, NoErr)
UploadEnd(i, err) == Event("uploadEnd", i, "", NoRequest, <<>>, err)

InitSync ==
    /\ calls = 0
    /\ pc = "idle"
    /\ files = <<>>
    /\ pdfFileMap = {}
    /\ idx = 0
    /\ fileContents = <<>>
    /\ ret = Pending
    /\ trace = <<>>
    /\ changed = FALSE
    /\ rerun = FALSE
    /\ status = 0

Init ==
    /\ store \in DevStores
    /\ q = NoQuery
    /\ up = NoUpload
    /\ InitSync

\* ----------------------------------------------------------------------- Sync
\* Return, with the error dropped on the way out
ReturnSwallowed(err) ==
    /\ ret' = NoErr
    /\ pc' = "idle"
    /\ changed' = FALSE

\* Sync returns err to its caller
Return(err) ==
    /\ ret' = err
    /\ pc' = "idle"
    /\ changed' = FALSE

\* SyncCall, with the map of the previous call kept and the scan left out
\* from the second call on
SyncCallCached(fs) ==
    /\ pc = "idle"
    /\ calls < MaxCalls
    /\ calls' = calls + 1
    /\ files' = fs
    /\ rerun' = (calls > 0 /\ fs = files /\ ~changed)
    /\ ret' = Pending
    /\ fileContents' = <<>>
    /\ status' = 0
    /\ IF calls = 0
       THEN pc' = "scan" /\ trace' = <<ScanBegin>> /\ pdfFileMap' = {} /\ idx' = 0
       ELSE pc' = "loop" /\ trace' = <<ScanBegin, ScanEnd(NoErr)>>
            /\ pdfFileMap' = pdfFileMap /\ idx' = 1
    /\ UNCHANGED <<store, q, up, changed>>

\* a caller invokes Sync(fs); Sync calls GetPdfFiles
SyncCall(fs) ==
    /\ pc = "idle"
    /\ calls < MaxCalls
    /\ calls' = calls + 1
    /\ files' = fs
    /\ rerun' = (calls > 0 /\ fs = files /\ ~changed)
    /\ pc' = "scan"
    /\ ret' = Pending
    /\ trace' = <<ScanBegin>>
    /\ pdfFileMap' = {}
    /\ idx' = 0
    /\ fileContents' = <<>>
    /\ status' = 0
    /\ UNCHANGED <<store, q, up, changed>>

\* ScanReturn, going on with an empty map when GetPdfFiles fails
ScanReturnIgnoresError ==
    /\ pc = "scan"
    /\ LET r == GetPdfFiles(store) IN
       /\ trace' = Append(trace, ScanEnd(r.err))
       /\ pdfFileMap' = createRemarkableFileMap(r.files)
       /\ idx' = 1
       /\ pc' = "loop"
       /\ UNCHANGED <<ret, changed>>
    /\ UNCHANGED <<store, q, up, status, calls, files, fileContents, rerun>>

\* GetPdfFiles returns: Sync returns its error, or builds pdfFileMap and enters the loop
ScanReturn ==
    /\ pc = "scan"
    /\ LET r == GetPdfFiles(store) IN
       /\ trace' = Append(trace, ScanEnd(r.err))
       /\ IF r.err # NoErr
          THEN /\ Return(r.err)
               /\ UNCHANGED <<pdfFileMap, idx>>
          ELSE /\ pdfFileMap' = createRemarkableFileMap(r.files)
               /\ idx' = 1
               /\ pc' = "loop"
               /\ UNCHANGED <<ret, changed>>
    /\ UNCHANGED <<store, q, up, status, calls, files, fileContents, rerun>>

\* InMap, with the store looked up again at every item
InMapLive(map, item) ==
    item.Filename \in createRemarkableFileMap(GetPdfFiles(store).files)

\* InMap, with the test inverted
InMapInverted(map, item) == item.Filename \notin map

\* the test of the loop body: is files[i].Filename a key of the map
InMap(map, item) == item.Filename \in map

\* LoopSkip, with the loop staying on the item found
LoopSkipStuck ==
    /\ pc = "loop"
    /\ idx <= Len(files)
    /\ files[idx].Filename \in pdfFileMap
    /\ UNCHANGED vars

\* LoopSkip, leaving the loop at the first item found instead of going on
LoopSkipReturns ==
    /\ pc = "loop"
    /\ idx <= Len(files)
    /\ files[idx].Filename \in pdfFileMap
    /\ ret' = NoErr
    /\ pc' = "idle"
    /\ changed' = FALSE
    /\ UNCHANGED <<store, q, up, status, calls, files, pdfFileMap, idx, fileContents, trace, rerun>>

\* an item found in pdfFileMap: the loop goes on to the next item
LoopSkip ==
    /\ pc = "loop"
    /\ idx <= Len(files)
    /\ InMap(pdfFileMap, files[idx])
    /\ idx' = idx + 1
    /\ UNCHANGED <<store, q, up, status, calls, pc, files, pdfFileMap, fileContents, ret, trace,
                   changed, rerun>>

\* the url downloadPdfFile is called with for item
FetchUrl(item) == item.Url

\* FetchBegin, with the transfer started in the background: the loop goes on
\* to the next item without waiting for it
FetchBeginNoWait ==
    /\ pc = "loop"
    /\ idx <= Len(files)
    /\ files[idx].Filename \notin pdfFileMap
    /\ idx' = idx + 1
    /\ trace' = Append(trace, FetchBeginEv(idx, files[idx].Url))
    /\ UNCHANGED <<store, q, up, status, calls, pc, files, pdfFileMap, fileContents, ret,
                   changed, rerun>>

\* an item not in pdfFileMap: downloadPdfFile sends its GET
FetchBegin ==
    /\ pc = "loop"
    /\ idx <= Len(files)
    /\ ~InMap(pdfFileMap, files[idx])
    /\ pc' = "fetch"
    /\ trace' = Append(trace, FetchBeginEv(idx, FetchUrl(files[idx])))
    /\ UNCHANGED <<store, q, up, status, calls, files, pdfFileMap, idx, fileContents, ret,
                   changed, rerun>>

\* the arguments Sync passes to UploadPdfToTablet
UploadArgs(contents, item) == [fileContents |-> contents, filename |-> item.Filename]

\* the statuses the source and the device answer with
Statuses == {200, 404, 500}

\* myClient.Get returns a response with status st and ioutil.ReadAll its body:
\* downloadPdfFile returns the body, UploadPdfToTablet builds and sends its POST
FetchReturnResponse(st, body) ==
    /\ pc = "fetch"
    /\ status' = st
    /\ fileContents' = body
    /\ LET a == UploadArgs(body, files[idx]) IN
       trace' = trace \o <<FetchEnd(idx, body, NoErr),
                           UploadBegin(idx, UploadRequest(a.fileContents, a.filename))>>
    /\ pc' = "upload"
    /\ UNCHANGED <<store, q, up, calls, files, pdfFileMap, idx, ret, changed, rerun>>

\* downloadPdfFile returns the body of a 200 response
FetchReturnOk(body) == FetchReturnResponse(200, body)

\* OnError, skipping the failing item and going on with the next
OnErrorContinue(err) ==
    /\ idx' = idx + 1
    /\ pc' = "loop"
    /\ UNCHANGED <<ret, changed>>

\* what Sync does when downloadPdfFile or UploadPdfToTablet returns err # nil
OnError(err) == Return(err) /\ UNCHANGED idx

\* FetchReturnErr, with a request sent to take back what the call uploaded
FetchReturnErrRollsBack(err) ==
    /\ pc = "fetch"
    /\ trace' = trace \o <<FetchEnd(idx, <<>>, err),
                           Event("rollback", idx, "", NoRequest, <<>>, NoErr)>>
    /\ status' = 0
    /\ Return(err)
    /\ UNCHANGED <<store, q, up, calls, files, pdfFileMap, idx, fileContents, rerun>>

\* downloadPdfFile fails (myClient.Get or ioutil.ReadAll): Sync returns the error
FetchReturnErr(err) ==
    /\ pc = "fetch"
    /\ trace' = Append(trace, FetchEnd(idx, <<>>, err))
    /\ status' = 0
    /\ OnError(err)
    /\ UNCHANGED <<store, q, up, calls, files, pdfFileMap, fileContents, rerun>>

\* UploadReturnOk, with the uploaded name added to pdfFileMap
UploadReturnOkRemembers ==
    /\ pc = "upload"
    /\ trace' = Append(trace, UploadEnd(idx, NoErr))
    /\ idx' = idx + 1
    /\ pc' = "loop"
    /\ pdfFileMap' = pdfFileMap \cup {files[idx].Filename}
    /\ status' = 200
    /\ UNCHANGED <<store, q, up, calls, files, fileContents, ret, changed, rerun>>

\* UploadReturnResponse, with a status of 400 or more taken for a failure
UploadReturnResponseChecked(st) ==
    /\ pc = "upload"
    /\ status' = st
    /\ IF st >= 400
       THEN /\ trace' = Append(trace, UploadEnd(idx, UrlError("Post")))
            /\ Return(UrlError("Post"))
            /\ UNCHANGED idx
       ELSE /\ trace' = Append(trace, UploadEnd(idx, NoErr))
            /\ idx' = idx + 1
            /\ pc' = "loop"
            /\ UNCHANGED <<ret, changed>>
    /\ UNCHANGED <<store, q, up, calls, files, pdfFileMap, fileContents, rerun>>

\* myClient.Do returns a response with status st: UploadPdfToTablet returns
\* nil and the loop goes on to the next item
UploadReturnResponse(st) ==
    /\ pc = "upload"
    /\ status' = st
    /\ trace' = Append(trace, UploadEnd(idx, NoErr))
    /\ idx' = idx + 1
    /\ pc' = "loop"
    /\ UNCHANGED <<store, q, up, calls, files, pdfFileMap, fileContents, ret, changed, rerun>>

\* myClient.Do returns a 200 response
UploadReturnOk == UploadReturnResponse(200)

\* myClient.Do fails: Sync returns the error
UploadReturnErr ==
    /\ pc = "upload"
    /\ trace' = Append(trace, UploadEnd(idx, UrlError("Post")))
    /\ status' = 0
    /\ OnError(UrlError("Post"))
    /\ UNCHANGED <<store, q, up, calls, files, pdfFileMap, fileContents, rerun>>

\* the loop is over: Sync returns nil
LoopExit ==
    /\ pc = "loop"
    /\ idx > Len(files)
    /\ Return(NoErr)
    /\ UNCHANGED <<store, q, up, status, calls, files, pdfFileMap, idx, fileContents, trace, rerun>>

\* the stores one write away from st: an entry added at the end, the last
\* entry removed, or one entry rewritten
Written(st) ==
    {Append(st, e) : e \in IF Len(st) < MaxDevFiles THEN DevEntries ELSE {}}
    \cup {SubSeq(st, 1, Len(st) - 1) : k \in IF Len(st) > 0 THEN {0} ELSE {}}
    \cup {[st EXCEPT ![i] = e] : i \in 1..Len(st), e \in DevEntries}

\* the device (or its user) writes to the metadata store; nothing in Sync guards against it
StoreWrite(st) ==
    /\ calls > 0
    /\ st # store
    /\ store' = st
    /\ changed' = TRUE
    /\ UNCHANGED <<q, up, status, calls, pc, files, pdfFileMap, idx, fileContents, ret, trace, rerun>>

Next ==
    \/ \E fs \in ReqLists : SyncCall(fs)
    \/ ScanReturn
    \/ LoopSkip
    \/ FetchBegin
    \/ \E body \in Bodies : FetchReturnOk(body)
    \/ \E err \in {UrlError("Get"), BodyReadError} : FetchReturnErr(err)
    \/ UploadReturnOk
    \/ UploadReturnErr
    \/ LoopExit
    \/ \E st \in Written(store) : StoreWrite(st)

Spec == Init /\ [][Next]_vars

\* ---------------------------------------- Sync on any store, the store at rest
InitQuiet ==
    /\ store \in SeqsUpTo(Entries, MaxDevFiles)
    /\ q = NoQuery
    /\ up = NoUpload
    /\ InitSync

NextQuiet ==
    \/ \E fs \in ReqLists : SyncCall(fs)
    \/ ScanReturn
    \/ LoopSkip
    \/ FetchBegin
    \/ \E body \in Bodies : FetchReturnOk(body)
    \/ \E err \in {UrlError("Get"), BodyReadError} : FetchReturnErr(err)
    \/ UploadReturnOk
    \/ UploadReturnErr
    \/ LoopExit

SpecQuiet == InitQuiet /\ [][NextQuiet]_vars

\* ------------------------------------- Sync with every status, the store at rest
NextHttp ==
    \/ \E fs \in ReqLists : SyncCall(fs)
    \/ ScanReturn
    \/ LoopSkip
    \/ FetchBegin
    \/ \E st \in Statuses, body \in Bodies : FetchReturnResponse(st, body)
    \/ \E err \in {UrlError("Get"), BodyReadError} : FetchReturnErr(err)
    \/ \E st \in Statuses : UploadReturnResponse(st)
    \/ UploadReturnErr
    \/ LoopExit

SpecHttp == Init /\ [][NextHttp]_vars

\* every call Sync makes returns (the scan; a fetch or an upload by a response,
\* a transport error or the timeout of myClient), and Sync itself keeps running
SpecLive ==
    /\ Init /\ [][NextHttp]_vars
    /\ WF_vars(ScanReturn)
    /\ WF_vars(LoopSkip \/ FetchBegin \/ LoopExit)
    /\ WF_vars((\E st \in Statuses, body \in Bodies : FetchReturnResponse(st, body))
                  \/ (\E err \in {UrlError("Get"), BodyReadError} : FetchReturnErr(err)))
    /\ WF_vars((\E st \in Statuses : UploadReturnResponse(st)) \/ UploadReturnErr)

\* ------------------------------------------- UploadPdfToTablet called directly
NameB == <<"\\">>

EncodeError == [type |-> "multipart", Op |-> "write"]

InitUpload ==
    /\ store = <<>>
    /\ q = NoQuery
    /\ InitSync
    /\ \E contents \in Bodies, filename \in Names \cup {NameB}, lib \in LibAnswers :
          up = UploadCall("called", contents, filename, lib, FALSE, NoRequest,
                          "running", NoErr)

\* UploadPdfToTablet returns err
UploadReturns(err) == up' = [up EXCEPT !.pc = "done", !.outcome = "returned", !.err = err]

\* writer.CreateFormFile, then part.Write
UploadCreateFormFile ==
    /\ up.pc = "called"
    /\ IF up.lib.createErr
       THEN UploadReturns(EncodeError)
       ELSE up' = [up EXCEPT !.pc = "written"]
    /\ UNCHANGED <<store, q, syncVars>>

\* writer.Close
UploadClose ==
    /\ up.pc = "written"
    /\ IF up.lib.closeErr
       THEN UploadReturns(EncodeError)
       ELSE up' = [up EXCEPT !.pc = "closed"]
    /\ UNCHANGED <<store, q, syncVars>>

\* http.NewRequest, then req.Header.Set three times, then the test of err:
\* when NewRequest fails req is nil, and req.Header.Set dereferences it
UploadNewRequest ==
    /\ up.pc = "closed"
    /\ IF up.lib.newRequestErr
       THEN up' = [up EXCEPT !.pc = "done", !.outcome = "panic"]
       ELSE up' = [up EXCEPT !.pc = "do", !.sent = TRUE,
                             !.req = UploadRequest(up.fileContents, up.filename)]
    /\ UNCHANGED <<store, q, syncVars>>

\* myClient.Do returns a response
UploadDoReturns ==
    /\ up.pc = "do"
    /\ ~up.lib.doErr
    /\ UploadReturns(NoErr)
    /\ UNCHANGED <<store, q, syncVars>>

\* myClient.Do fails
UploadDoFails ==
    /\ up.pc = "do"
    /\ up.lib.doErr
    /\ UploadReturns(UrlError("Post"))
    /\ UNCHANGED <<store, q, syncVars>>

NextUpload ==
    \/ UploadCreateFormFile
    \/ UploadClose
    \/ UploadNewRequest
    \/ UploadDoReturns
    \/ UploadDoFails

SpecUpload == InitUpload /\ [][NextUpload]_vars

\* -------------------------------------------------- the queries called directly
InitQuery ==
    /\ store \in Stores
    /\ q = NoQuery
    /\ up = NoUpload
    /\ InitSync

CallGetPdfFiles ==
    /\ q' = [op |-> "GetPdfFiles"] @@ GetPdfFiles(store)
    /\ UNCHANGED <<store, up, syncVars>>

CallGetDirectoriesMetadataFiles ==
    /\ q' = [op |-> "GetDirectoriesMetadataFiles"] @@ GetDirectoriesMetadataFiles(store)
    /\ UNCHANGED <<store, up, syncVars>>

NextQuery ==
    \/ CallGetPdfFiles
    \/ CallGetDirectoriesMetadataFiles

SpecQuery == InitQuery /\ [][NextQuery]_vars

\* ===================================================================== claims
\* entry i of st is a metadata record: a regular file with the extension
\* .metadata that can be read and parsed
IsRecord(st, i) ==
    /\ ~st[i].walkErr /\ ~st[i].isDir /\ st[i].ext = ".metadata"
    /\ ~st[i].readErr /\ st[i].parseOk

\* the traversal fails, or some metadata file cannot be read or parsed
HasFailure(st) ==
    \E i \in 1..Len(st) :
        \/ st[i].walkErr
        \/ /\ ~st[i].isDir /\ st[i].ext = ".metadata"
           /\ (st[i].readErr \/ ~st[i].parseOk)

\* the positions of the query result q that carry the path (i, ext)
Hits(i, ext) == {j \in 1..Len(q.files) : q.files[j].Filename = Path(i, ext)}

\* C5 (as claimed): when the documents query succeeds, a metadata record appears
\* in its output if and only if its type is DocumentType and a content file
\* exists at the sibling .pdf path
C5_DocumentsIffContent ==
    (q.op = "GetPdfFiles" /\ q.err = NoErr) =>
        \A i \in 1..Len(store) :
            (Hits(i, ".pdf") # {}) <=>
                (IsRecord(store, i) /\ store[i].Type = "DocumentType"
                    /\ store[i].pdf = "present")

\* C6: when the collections query succeeds, its output holds exactly one entry
\* (metadata path, visibleName) for every metadata record whose type is
\* CollectionType, no entry for any other record, and nothing else
C6_CollectionsExact ==
    (q.op = "GetDirectoriesMetadataFiles" /\ q.err = NoErr) =>
        /\ \A i \in 1..Len(store) :
              /\ Cardinality(Hits(i, ".metadata")) =
                    IF IsRecord(store, i) /\ store[i].Type = "CollectionType"
                    THEN 1 ELSE 0
              /\ \A j \in Hits(i, ".metadata") :
                    q.files[j].VisibleName = store[i].VisibleName
        /\ \A j \in 1..Len(q.files) :
              \E i \in 1..Len(store) : j \in Hits(i, ".metadata")

C6_Witness ==
    /\ q.op = "GetDirectoriesMetadataFiles" /\ q.err = NoErr
    /\ Len(store) = 2
    /\ store[1].Type = "" /\ IsRecord(store, 1)
    /\ store[2].Type = "CollectionType"
    /\ Len(q.files) = 1

\* C7: if the traversal fails or a metadata file cannot be read or parsed, either
\* query returns an error and no entries, whatever it had collected before
C7_AllOrNothing ==
    (q.op # "none" /\ HasFailure(store)) => (q.err # NoErr /\ q.files = <<>>)

C7_Witness ==
    /\ q.op = "GetPdfFiles"
    /\ Len(store) = 2
    /\ IsRecord(store, 1) /\ store[1].Type = "DocumentType" /\ store[1].pdf = "present"
    /\ ~store[2].parseOk
    /\ q.err = SyntaxError

\* ------------------------------------------------------------ claims about Sync
\* the value a receiver reads from the filename parameter of the part's
\* Content-Disposition header: a quoted-string, in which a backslash quotes
\* the next character and an unquoted double quote ends the value
RECURSIVE QuotedStringValue(_)
QuotedStringValue(s) ==
    IF s = <<>> THEN <<>>
    ELSE IF Head(s) = "\"" THEN <<>>
    ELSE IF Head(s) = "\\" /\ Len(s) >= 2
         THEN <<s[2]>> \o QuotedStringValue(SubSeq(s, 3, Len(s)))
         ELSE <<Head(s)>> \o QuotedStringValue(Tail(s))

Transfer(op, i, url, name) == [op |-> op, i |-> i, url |-> url, name |-> name]

\* the fetch and upload calls a trace holds, in the order they were made
Transfers(tr) ==
    LET begins == SelectSeq(tr, LAMBDA e : e.ev \in {"fetchBegin", "uploadBegin"}) IN
    [k \in 1..Len(begins) |->
        IF begins[k].ev = "fetchBegin"
        THEN Transfer("fetch", begins[k].i, begins[k].url, <<>>)
        ELSE Transfer("upload", begins[k].i, "",
                      QuotedStringValue(begins[k].req.body.filename))]

\* one fetch and one upload for every item of fs[i..] whose name is not in inv
RECURSIVE ExpectedFrom(_, _, _)
ExpectedFrom(fs, inv, i) ==
    IF i > Len(fs) THEN <<>>
    ELSE (IF fs[i].Filename \in inv THEN <<>>
          ELSE <<Transfer("fetch", i, fs[i].Url, <<>>),
                 Transfer("upload", i, "", fs[i].Filename)>>)
         \o ExpectedFrom(fs, inv, i + 1)

Returned == pc = "idle" /\ calls > 0

\* the positions of the trace at which a scan, fetch or upload failed
Failures(tr) == {k \in 1..Len(tr) : tr[k].err # NoErr}

\* C1: a call that returns no error has made exactly one fetch and one upload,
\* in this order, for each request whose name is not in the Inventory, in the
\* order of the list; and no call ever fetches or uploads a request whose name
\* is in the Inventory
C1_SetDifferenceInOrder ==
    /\ (Returned /\ ret = NoErr) =>
           Transfers(trace) = ExpectedFrom(files, pdfFileMap, 1)
    /\ \A k \in 1..Len(trace) :
           trace[k].ev \in {"fetchBegin", "uploadBegin"} =>
               files[trace[k].i].Filename \notin pdfFileMap

C1_Witness ==
    /\ Returned /\ ret = NoErr
    /\ Len(files) = 2
    /\ files[1].Filename \in pdfFileMap
    /\ files[2].Filename \notin pdfFileMap
    /\ Len(Transfers(trace)) = 2

\* C2: once a fetch or an upload has failed, the call has returned an error and
\* the failing call is the last one it made
C2_FailFast ==
    \A k \in 1..Len(trace) :
        (trace[k].ev \in {"fetchEnd", "uploadEnd"} /\ trace[k].err # NoErr) =>
            /\ k = Len(trace)
            /\ pc = "idle"
            /\ ret # NoErr /\ ret # Pending

C2_Witness ==
    /\ Returned
    /\ Len(files) = 2
    /\ \A i \in 1..2 : files[i].Filename \notin pdfFileMap
    /\ trace[Len(trace)].ev = "fetchEnd"
    /\ trace[Len(trace)].i = 1
    /\ trace[Len(trace)].err # NoErr

\* C3: a call that repeats the list of the previous call on a store not written
\* in between makes no fetch and no upload for a request whose name is in the
\* Inventory it scanned
C3_Idempotence ==
    rerun =>
        \A i \in 1..Len(files) :
            files[i].Filename \in pdfFileMap =>
                \A k \in 1..Len(trace) :
                    trace[k].ev \in {"fetchBegin", "uploadBegin"} => trace[k].i # i

C3_Witness ==
    /\ rerun /\ Returned /\ ret = NoErr
    /\ Len(files) = 2
    /\ \A i \in 1..2 : files[i].Filename \in pdfFileMap
    /\ Len(trace) = 2

\* the phase an error value comes from, read off its type and operation
PhaseOf(err) ==
    IF err.type \in {"PathError", "SyntaxError"} THEN "scan"
    ELSE IF err = UrlError("Post") THEN "upload"
    ELSE IF err = UrlError("Get") \/ err = BodyReadError THEN "fetch"
    ELSE "none"

\* the phase an event of the trace belongs to
PhaseOfEvent(e) ==
    IF e.ev \in {"scanBegin", "scanEnd"} THEN "scan"
    ELSE IF e.ev \in {"fetchBegin", "fetchEnd"} THEN "fetch"
    ELSE "upload"

\* request i was fetched without error and then uploaded without error
FetchedThenUploaded(tr, i) ==
    \E k, l \in 1..Len(tr) :
        /\ k < l
        /\ tr[k].ev = "fetchEnd" /\ tr[k].i = i /\ tr[k].err = NoErr
        /\ tr[l].ev = "uploadEnd" /\ tr[l].i = i /\ tr[l].err = NoErr

\* C4: a call that has returned either returned no error, no phase failed and
\* every request is in the Inventory or was fetched and then uploaded without
\* error; or it returned the error of the first phase that failed, and that
\* error tells the phase
C4_TwoOutcomes ==
    Returned =>
        \/ /\ ret = NoErr
           /\ Failures(trace) = {}
           /\ \A i \in 1..Len(files) :
                 files[i].Filename \in pdfFileMap \/ FetchedThenUploaded(trace, i)
        \/ /\ ret \notin {NoErr, Pending}
           /\ Failures(trace) # {}
           /\ LET first == CHOOSE k \in Failures(trace) :
                               \A m \in Failures(trace) : k <= m IN
              /\ ret = trace[first].err
              /\ PhaseOf(ret) = PhaseOfEvent(trace[first])

C4_Witness ==
    /\ Returned
    /\ Len(files) = 2
    /\ FetchedThenUploaded(trace, 1)
    /\ ret = UrlError("Post")
    /\ trace[Len(trace)].i = 2

\* C8: every upload directly follows the successful return of the fetch of the
\* same request, and its one form field "file" carries the bytes that fetch
\* returned, unchanged, under a filename that reads as the request's name
C8_Pipeline ==
    \A k \in 1..Len(trace) :
        trace[k].ev = "uploadBegin" =>
            /\ k > 1
            /\ trace[k - 1].ev = "fetchEnd"
            /\ trace[k - 1].i = trace[k].i
            /\ trace[k - 1].err = NoErr
            /\ trace[k].req.body.field = "file"
            /\ trace[k].req.body.payload = trace[k - 1].body
            /\ QuotedStringValue(trace[k].req.body.filename) = files[trace[k].i].Filename

C8_Witness ==
    /\ Len(trace) >= 5
    /\ trace[5].ev = "uploadBegin"
    /\ files[trace[5].i].Filename = NameQ
    /\ trace[5].req.body.payload # <<>>
    /\ trace[5].req.body.filename # NameQ

IsBegin(e) == e.ev \in {"scanBegin", "fetchBegin", "uploadBegin"}

EndOf(ev) ==
    IF ev = "scanBegin" THEN "scanEnd"
    ELSE IF ev = "fetchBegin" THEN "fetchEnd" ELSE "uploadEnd"

\* the calls of the trace that have begun and not returned
InFlight(tr) ==
    {k \in 1..Len(tr) :
        IsBegin(tr[k]) /\ ~\E l \in (k + 1)..Len(tr) :
                               tr[l].ev = EndOf(tr[k].ev) /\ tr[l].i = tr[k].i}

\* C9: within one call the scan is the first call made, is made once and has
\* returned before any fetch begins; every call returns before the next one
\* begins, so at most one is in flight; and the requests are worked in the
\* order of the list
C9_StrictSequencing ==
    /\ Len(trace) > 0 => trace[1].ev = "scanBegin"
    /\ Cardinality({k \in 1..Len(trace) : trace[k].ev = "scanBegin"}) <= 1
    /\ \A k \in 1..Len(trace) :
          /\ (IsBegin(trace[k]) /\ k < Len(trace)) =>
                 (trace[k + 1].ev = EndOf(trace[k].ev) /\ trace[k + 1].i = trace[k].i)
          /\ ~IsBegin(trace[k]) => (k > 1 /\ trace[k].ev = EndOf(trace[k - 1].ev))
    /\ Cardinality(InFlight(trace)) <= 1
    /\ \A k, l \in 1..Len(trace) :
          (k < l /\ trace[k].ev = "uploadBegin" /\ trace[l].ev = "fetchBegin") =>
              /\ trace[k].i < trace[l].i
              /\ \E m \in (k + 1)..(l - 1) :
                    trace[m].ev = "uploadEnd" /\ trace[m].i = trace[k].i

C9_Witness ==
    /\ Len(files) = 2
    /\ pc = "fetch" /\ idx = 2
    /\ \E k \in 1..Len(trace) : trace[k].ev = "uploadEnd" /\ trace[k].i = 1
    /\ InFlight(trace) = {Len(trace)}

\* how often the name n is asked for in fs
Occurrences(fs, n) == Cardinality({i \in 1..Len(fs) : fs[i].Filename = n})

\* how often a call of kind ev was made for a request named n
Attempts(tr, fs, ev, n) ==
    Cardinality({k \in 1..Len(tr) : tr[k].ev = ev /\ fs[tr[k].i].Filename = n})

\* C10: a call that returns no error has fetched and uploaded a name that is
\* not in the Inventory once for each time the list holds it; and the Inventory
\* does not change while the loop runs
C10_NoDedup ==
    /\ [] ((Returned /\ ret = NoErr) =>
              \A n \in Names \ pdfFileMap :
                  /\ Attempts(trace, files, "fetchBegin", n) = Occurrences(files, n)
                  /\ Attempts(trace, files, "uploadBegin", n) = Occurrences(files, n))
    /\ [][(pc \in {"loop", "fetch", "upload"}) => (pdfFileMap' = pdfFileMap)]_vars

C10_Witness ==
    /\ Returned /\ ret = NoErr
    /\ Len(files) = 2
    /\ files[1].Filename = files[2].Filename
    /\ Attempts(trace, files, "uploadBegin", files[1].Filename) = 2

\* C11: the status of a response is never read. While the last response of the
\* running call has any status at all, no call of the trace has failed and
\* Sync has not returned an error; a fetch answered with any status hands the
\* body of the response to the upload; and a call in which no scan, fetch or
\* upload failed returns no error
C11_StatusIgnored ==
    /\ status # 0 => (Failures(trace) = {} /\ ret \in {Pending, NoErr})
    /\ pc = "upload" =>
          /\ status \in Statuses
          /\ trace[Len(trace) - 1].ev = "fetchEnd"
          /\ trace[Len(trace) - 1].err = NoErr
          /\ trace[Len(trace)].req.body.payload = trace[Len(trace) - 1].body
          /\ fileContents = trace[Len(trace) - 1].body
    /\ (Returned /\ Failures(trace) = {}) => ret = NoErr

C11_Witness ==
    /\ Returned /\ ret = NoErr
    /\ status = 500
    /\ Len(files) = 2
    /\ FetchedThenUploaded(trace, 1) /\ FetchedThenUploaded(trace, 2)

\* the failure a call of UploadPdfToTablet meets first, given its libraries' answers
FirstUploadFailure(lib) ==
    IF lib.createErr \/ lib.closeErr THEN "body"
    ELSE IF lib.newRequestErr THEN "request"
    ELSE IF lib.doErr THEN "transport" ELSE "none"

C16_ScanErrorNoTransfer ==
    \A k \in 1..Len(trace) :
        (trace[k].ev = "scanEnd" /\ trace[k].err # NoErr) =>
            /\ k = 2 /\ Len(trace) = 2
            /\ pc = "idle"
            /\ ret = trace[k].err
            /\ Transfers(trace) = <<>>

C16_Witness ==
    /\ Returned
    /\ ret = PathError("lstat")
    /\ Len(files) = 2
    /\ Len(trace) = 2

\* C18 (as claimed): in a call that returned no error on a store at rest, a
\* request was skipped (neither fetched nor uploaded) if and only if some
\* DocumentType record with a content file has the request's name as its
\* visibleName
C18_PresenceByDocumentName ==
    (Returned /\ ret = NoErr) =>
        \A i \in 1..Len(files) :
            (~\E k \in 1..Len(trace) :
                  trace[k].ev \in {"fetchBegin", "uploadBegin"} /\ trace[k].i = i)
            <=> (\E j \in 1..Len(store) :
                    /\ IsRecord(store, j)
                    /\ store[j].Type = "DocumentType"
                    /\ store[j].pdf = "present"
                    /\ store[j].VisibleName = files[i].Filename)

IsPrefix(a, b) == Len(a) <= Len(b) /\ SubSeq(b, 1, Len(a)) = a

\* the requests uploaded without error, in the order of their uploads
UploadedIdx(tr) ==
    LET done == SelectSeq(tr, LAMBDA e : e.ev = "uploadEnd" /\ e.err = NoErr) IN
    [k \in 1..Len(done) |-> done[k].i]

\* the requests before position k whose name is not in inv
MissingBefore(fs, inv, k) ==
    SelectSeq([i \in 1..(k - 1) |-> i], LAMBDA i : fs[i].Filename \notin inv)

EventKinds == {"scanBegin", "scanEnd", "fetchBegin", "fetchEnd", "uploadBegin", "uploadEnd"}

\* C13: a call aborted by the fetch or the upload of request k has uploaded
\* exactly the missing requests before k, each once per occurrence and in
\* order; the failing call is the last thing it did; the calls it made are
\* the scan, fetches and POSTs to the upload endpoint only; and what it
\* returns is the one error
C13_NoRollback ==
    /\ \A k \in 1..Len(trace) :
          /\ trace[k].ev \in EventKinds
          /\ trace[k].ev = "uploadBegin" =>
                (trace[k].req.method = "POST"
                    /\ trace[k].req.url = "http://10.11.99.1/upload")
    /\ (Returned /\ ret # NoErr /\ Len(trace) > 2) =>
          LET last == trace[Len(trace)] IN
          /\ last.ev \in {"fetchEnd", "uploadEnd"}
          /\ last.err = ret
          /\ UploadedIdx(trace) = MissingBefore(files, pdfFileMap, last.i)

C13_Witness ==
    /\ Returned /\ ret = UrlError("Get")
    /\ Len(files) = 2
    /\ trace[Len(trace)].i = 2
    /\ UploadedIdx(trace) = <<1>>

\* the names the documents query finds in st when it succeeds
ScannedNames(st) ==
    {st[j].VisibleName :
        j \in {m \in 1..Len(st) : /\ ~st[m].isDir /\ st[m].ext = ".metadata"
                                  /\ st[m].Type = "DocumentType"
                                  /\ st[m].pdf # "absent"}}

\* C14: every call starts with nothing kept from the call before (its own
\* scan, an empty map, the loop not begun); the map it works with is what its
\* own scan finds in the store; and the fetches and uploads it makes are
\* those its list and that map ask for, from the first request on
C14_NoStateAcrossCalls ==
    /\ [] ((pc \in {"loop", "fetch", "upload"} \/ (Returned /\ ret = NoErr)) =>
              /\ Len(trace) >= 2
              /\ trace[1] = ScanBegin /\ trace[2] = ScanEnd(NoErr)
              /\ IsPrefix(Transfers(trace), ExpectedFrom(files, pdfFileMap, 1)))
    /\ [][(pc = "idle" /\ pc' # "idle") =>
             (/\ pc' = "scan" /\ trace' = <<ScanBegin>> /\ pdfFileMap' = {}
              /\ idx' = 0 /\ fileContents' = <<>> /\ ret' = Pending)]_vars
    /\ [][(pc = "scan" /\ pc' = "loop") =>
             (pdfFileMap' = ScannedNames(store) /\ idx' = 1)]_vars

C14_Witness ==
    /\ calls = 2 /\ rerun
    /\ pc = "upload" /\ idx = 1
    /\ Len(files) = 2

\* C15: a call that has begun returns, with nil or with an error; and once it
\* has returned it makes no further call
C15_Termination ==
    /\ (pc # "idle") ~> (pc = "idle" /\ ret # Pending)
    /\ [] (Returned => ret # Pending)
    /\ [][(pc = "idle" /\ pc' = "idle") => (trace' = trace /\ ret' = ret)]_vars

C15_Witness ==
    /\ Returned /\ ret = NoErr
    /\ Len(files) = 2
    /\ files[1].Filename \in pdfFileMap
    /\ FetchedThenUploaded(trace, 2)

\* C17: a write to the store changes nothing of the running call, and at
\* every item the loop fetches exactly when the name is not in the map built by
\* the scan, whatever the store holds by then
C17_SnapshotOnly ==
    /\ [][(store' # store) =>
             (pdfFileMap' = pdfFileMap /\ pc' = pc /\ idx' = idx /\ trace' = trace)]_vars
    /\ [][(pc = "loop" /\ idx <= Len(files) /\ store' = store) =>
             IF files[idx].Filename \in pdfFileMap
             THEN pc' = "loop" /\ idx' = idx + 1 /\ trace' = trace
             ELSE pc' = "fetch" /\ idx' = idx
                  /\ trace' = Append(trace, FetchBeginEv(idx, files[idx].Url))]_vars

C17_Witness ==
    /\ pc = "fetch"
    /\ files[idx].Filename \notin pdfFileMap
    /\ files[idx].Filename \in ScannedNames(store)

====
